---- MODULE Spec2Model ----
(***************************************************************************)
(* A model of the stark101 prover / verifier pipeline (FibonacciSq STARK): *)
(* trace arithmetization, constraint polynomials, the FRI commit/fold and  *)
(* decommit/fold loops and the Fiat-Shamir transcript.                     *)
(*                                                                         *)
(* Scaling.  The code works over the 252-bit Stark field with a trace of   *)
(* 1024 rows evaluated on 8192 points.  The model keeps every formula of   *)
(* the code but instantiates it over the prime field of FieldModulus       *)
(* elements, whose 2-Sylow subgroup has order 2^TWO_ADICITY, with the      *)
(* default trace length INT_DOM_SIZE (the code's 1024) and the default     *)
(* evaluation length EVAL_DOM_SIZE (the code's 8192).  The blowup factor 8 *)
(* and the offset 2 are the code's own.  The literals 1024, 1021 of the    *)
(* code appear as INT_DOM_SIZE and INT_DOM_SIZE - 3.                       *)
(*                                                                         *)
(* Hashing.  Keccak-256 is modelled as an ideal (injective) hash: a leaf   *)
(* digest is <<v>>, an inner digest is <<left, right>>.  The transcript is *)
(* a deterministic sponge over a small state.                              *)
(***************************************************************************)
EXTENDS Integers, Sequences, FiniteSets, TLC

\* ------------------------------------------------------------------ field
\* type F = Stark252PrimeField, scaled down to a prime with 2-adicity 6.
FieldModulus == 193

\* F::TWO_ADICITY of the scaled field: 193 - 1 = 2^6 * 3.
TWO_ADICITY == 6

\* F::TWO_ADIC_PRIMITVE_ROOT_OF_UNITY: an element of order 2^TWO_ADICITY.
TWO_ADIC_ROOT == 11

FE == 0 .. (FieldModulus - 1)

FAdd(a, b) == (a + b) % FieldModulus

FSub(a, b) == (a - b + FieldModulus) % FieldModulus

FMul(a, b) == (a * b) % FieldModulus

RECURSIVE FPow(_, _)
\* FieldElement::pow: square and multiply.
FPow(a, e) ==
    IF e = 0 THEN 1
    ELSE LET h == FPow(a, e \div 2)
             s == FMul(h, h)
         IN  IF e % 2 = 1 THEN FMul(s, a) ELSE s

\* FieldElement::inv (callers unwrap it: zero has no inverse and panics;
\* every caller in the model tests for zero before it divides).
FInv(a) == FPow(a, FieldModulus - 2)

FDiv(a, b) == FMul(a, FInv(b))

RECURSIVE Log2(_)
\* usize::BITS - n.leading_zeros() - 1 for n >= 1.
Log2(n) == IF n <= 1 THEN 0 ELSE 1 + Log2(n \div 2)

\* usize::BITS - n.leading_zeros(): the bit length of n (0 for n = 0).
BitLength(n) == IF n = 0 THEN 0 ELSE 1 + Log2(n)

RECURSIVE Pow2(_)
Pow2(k) == IF k = 0 THEN 1 ELSE 2 * Pow2(k - 1)

\* usize::next_power_of_two.
NextPow2(n) == IF n <= 1 THEN 1 ELSE Pow2(BitLength(n - 1))

\* F::get_primitive_root_of_unity(order): a root of unity of order 2^order.
get_primitive_root_of_unity(order) ==
    FPow(TWO_ADIC_ROOT, Pow2(TWO_ADICITY - order))

\* ------------------------------------------------------------ polynomials
\* A polynomial is the sequence of its coefficients, lowest degree first,
\* without trailing zeros (Polynomial::new trims them); <<>> is zero.
\* Polynomial::new: the coefficients up to the last non-zero one.
Trim(c) ==
    LET nz == {j \in 1 .. Len(c) : c[j] # 0}
    IN  IF nz = {} THEN <<>>
        ELSE SubSeq(c, 1, CHOOSE m \in nz : \A k \in nz : k <= m)

\* Polynomial::degree: 0 for the zero polynomial.
Degree(p) == IF Len(p) = 0 THEN 0 ELSE Len(p) - 1

Coef(p, j) == IF j < Len(p) THEN p[j + 1] ELSE 0

MaxOf(a, b) == IF a >= b THEN a ELSE b

\* The length of a zip of two sequences.
MinOf(a, b) == IF a <= b THEN a ELSE b

PolyAdd(p, q) ==
    Trim([j \in 1 .. MaxOf(Len(p), Len(q)) |-> FAdd(Coef(p, j - 1), Coef(q, j - 1))])

PolySub(p, q) ==
    Trim([j \in 1 .. MaxOf(Len(p), Len(q)) |-> FSub(Coef(p, j - 1), Coef(q, j - 1))])

\* &poly - c for a field element c.
PolySubConst(p, c) == PolySub(p, Trim(<<c>>))

PolyScalarMul(a, p) == Trim([j \in 1 .. Len(p) |-> FMul(a, p[j])])

\* Polynomial::new_monomial(c, d).
Monomial(c, d) == Trim([j \in 1 .. d + 1 |-> IF j = d + 1 THEN c ELSE 0])

RECURSIVE EvalFrom(_, _, _)
EvalFrom(p, x, j) ==
    IF j > Len(p) THEN 0 ELSE FAdd(p[j], FMul(x, EvalFrom(p, x, j + 1)))

\* Polynomial::evaluate (Horner).
Evaluate(p, x) == EvalFrom(p, x, 1)

\* Polynomial::scale: p(g*x), coefficient j times g^j.
Scale(p, g) == Trim([j \in 1 .. Len(p) |-> FMul(p[j], FPow(g, j - 1))])

\* The exact product of two polynomials (used to state the claims).
PolyMul(p, q) ==
    IF Len(p) = 0 \/ Len(q) = 0 THEN <<>>
    ELSE LET term(k, i) == IF k - i >= 0 /\ k - i < Len(q)
                             THEN FMul(p[i + 1], q[k - i + 1]) ELSE 0
             RECURSIVE acc(_, _)
             acc(k, i) == IF i < 0 THEN 0 ELSE FAdd(term(k, i), acc(k, i - 1))
         IN  Trim([k \in 1 .. Len(p) + Len(q) - 1 |-> acc(k - 1, Len(p) - 1)])

\* ------------------------------------------------------------------- FFT
\* Polynomial::evaluate_offset_fft(poly, blowup, domain_size, offset):
\* the values poly(offset * w^i), i = 0 .. len-1, in natural order, where
\* len = next_power_of_two(max(coefficients, domain_size)) * blowup and w
\* is the primitive root of unity of order len.  domain_size = 0 is None.
evaluate_offset_fft(poly, blowup, domain_size, offset) ==
    LET len == NextPow2(MaxOf(Len(poly), domain_size)) * blowup
        w   == get_primitive_root_of_unity(Log2(len))
    IN  [i \in 1 .. len |-> Evaluate(poly, FMul(offset, FPow(w, i - 1)))]

\* Polynomial::interpolate_fft(evals): the polynomial of degree < len
\* taking the value evals[i] at w^i (inverse DFT).
interpolate_fft(evals) ==
    LET len  == Len(evals)
        w    == get_primitive_root_of_unity(Log2(len))
        winv == FInv(w)
        ninv == FInv(len % FieldModulus)
        RECURSIVE sum(_, _, _)
        sum(j, lo, hi) ==
            IF lo = hi THEN FMul(evals[lo], FPow(winv, ((lo - 1) * j) % len))
            ELSE FAdd(sum(j, lo, (lo + hi) \div 2), sum(j, (lo + hi) \div 2 + 1, hi))
    IN  Trim([j \in 1 .. len |-> FMul(ninv, sum(j - 1, 1, len))])

\* Polynomial::interpolate_offset_fft(evals, offset): interpolate, then
\* scale by offset^-1.
interpolate_offset_fft(evals, offset) ==
    Scale(interpolate_fft(evals), FInv(offset))

\* ------------------------------------------------------- poly utilities
\* "n / d" on field elements unwraps the inverse of d: a zero among the
\* denominator's evaluations aborts polynomial_division.
division_panics(den, domain_size, offset) ==
    LET den_eval == evaluate_offset_fft(den, 1, domain_size, offset)
    IN  \E i \in 1 .. Len(den_eval) : den_eval[i] = 0

\* A plausible slip: the quotient is interpolated without undoing the offset.
polynomial_division_NoOffset(num, den, domain_size, offset) ==
    LET num_eval == evaluate_offset_fft(num, 1, domain_size, offset)
        den_eval == evaluate_offset_fft(den, 1, domain_size, offset)
    IN  interpolate_fft([i \in 1 .. Len(num_eval) |-> FDiv(num_eval[i], den_eval[i])])

\* poly::polynomial_division: division in evaluation form.
polynomial_division(num, den, domain_size, offset) ==
    LET num_eval  == evaluate_offset_fft(num, 1, domain_size, offset)
        den_eval  == evaluate_offset_fft(den, 1, domain_size, offset)
        poly_eval == [i \in 1 .. MinOf(Len(num_eval), Len(den_eval))
                        |-> FDiv(num_eval[i], den_eval[i])]
    IN  interpolate_offset_fft(poly_eval, offset)

RECURSIVE product_eval_from(_, _, _, _)
product_eval_from(factors, k, domain_size, offset) ==
    IF k = 1 THEN evaluate_offset_fft(factors[1], 1, domain_size, offset)
    ELSE LET prod  == product_eval_from(factors, k - 1, domain_size, offset)
             evals == evaluate_offset_fft(factors[k], 1, domain_size, offset)
         IN  [i \in 1 .. MinOf(Len(prod), Len(evals)) |-> FMul(prod[i], evals[i])]

\* poly::polynomial_multiplication: product in evaluation form.
polynomial_multiplication(factors, domain_size, offset) ==
    interpolate_offset_fft(
        product_eval_from(factors, Len(factors), domain_size, offset), offset)

\* poly::polynomial_power: power in evaluation form.
polynomial_power(poly, power, domain_size, offset) ==
    LET evaluations == evaluate_offset_fft(poly, 1, domain_size, offset)
    IN  interpolate_offset_fft(
            [i \in 1 .. Len(evaluations) |-> FPow(evaluations[i], power)], offset)

\* A plausible slip: beta multiplies the even coefficients.
fold_polynomial_BetaOnEven(poly, beta) ==
    LET half == (Len(poly) + 1) \div 2
    IN  Trim([j \in 1 .. half |->
                FAdd(FMul(beta, Coef(poly, 2 * (j - 1))), Coef(poly, 2 * (j - 1) + 1))])

\* poly::fold_polynomial: even coefficients plus beta times the odd ones.
fold_polynomial(poly, beta) ==
    LET even_coef         == [j \in 1 .. (Len(poly) + 1) \div 2 |-> poly[2 * j - 1]]
        odd_coef_mul_beta == [j \in 1 .. Len(poly) \div 2 |-> FMul(poly[2 * j], beta)]
    IN  PolyAdd(Trim(even_coef), Trim(odd_coef_mul_beta))

\* ------------------------------------------------------------ Merkle tree
\* Keccak256Backend::hash_data: the digest of a leaf.
HashData(v) == <<v>>

\* Keccak256Backend::hash_new_parent.
HashNewParent(l, r) == <<l, r>>

\* A digest with one bit flipped: a value no data hashes to.
FlipDigest(d) == <<d, d, d>>

RECURSIVE MerkleRoot(_)
\* MerkleTree::build(evals).root for a power-of-two number of leaves.
MerkleRoot(evals) ==
    IF Len(evals) = 1 THEN HashData(evals[1])
    ELSE LET half == Len(evals) \div 2
         IN  HashNewParent(MerkleRoot(SubSeq(evals, 1, half)),
                           MerkleRoot(SubSeq(evals, half + 1, Len(evals))))

RECURSIVE get_proof_by_pos(_, _)
\* MerkleTree::get_proof_by_pos(pos): the sibling digests, leaf level first.
get_proof_by_pos(evals, pos) ==
    IF Len(evals) = 1 THEN <<>>
    ELSE LET half == Len(evals) \div 2
             lo   == SubSeq(evals, 1, half)
             hi   == SubSeq(evals, half + 1, Len(evals))
         IN  IF pos < half
             THEN Append(get_proof_by_pos(lo, pos), MerkleRoot(hi))
             ELSE Append(get_proof_by_pos(hi, pos - half), MerkleRoot(lo))

RECURSIVE HashUp(_, _, _, _)
HashUp(path, k, index, hashed_value) ==
    IF k > Len(path) THEN hashed_value
    ELSE HashUp(path, k + 1, index \div 2,
                IF index % 2 = 0 THEN HashNewParent(hashed_value, path[k])
                ELSE HashNewParent(path[k], hashed_value))

\* Proof::verify(root, index, value): rebuild the root from the leaf.
ProofVerify(path, root, index, value) ==
    root = HashUp(path, 1, index, HashData(value))

\* ------------------------------------------------------------- transcript
\* DefaultTranscript: the sponge state, scaled down.
SpongeSize == 8191

RECURSIVE Fingerprint(_)
\* The bytes of a digest as the sponge absorbs them.
Fingerprint(d) ==
    IF Len(d) = 1 THEN (d[1] + 1) % SpongeSize
    ELSE IF Len(d) = 2
    THEN (3 * Fingerprint(d[1]) + 5 * Fingerprint(d[2]) + 7) % SpongeSize
    ELSE (Fingerprint(d[1]) + 1) % SpongeSize

\* DefaultTranscript::new(&[]).
NewTranscript == [state |-> 0, log |-> <<>>]

\* transcript.append_bytes(bytes); `what` names the call site.
append_bytes(tr, what, val) ==
    [state |-> (31 * tr.state + val + 1) % SpongeSize,
     log   |-> Append(tr.log, [op |-> "append", what |-> what, val |-> val])]

\* The sponge state after one squeeze.
Squeeze(tr) == (17 * tr.state + 5) % SpongeSize

\* transcript.sample_field_element(): the element, then the new transcript.
sample_field_element(tr) == Squeeze(tr) % FieldModulus

after_sample_field(tr, what) ==
    [state |-> Squeeze(tr),
     log   |-> Append(tr.log, [op |-> "sample_field", what |-> what,
                               val |-> sample_field_element(tr)])]

\* The limbs of a U256 (4 in the code), and what one limb counts up to
\* (2^64 in the code, scaled): a usize fits one limb.
NumLimbs == 4

LimbBase == 128

\* transcript.sample(): the bytes of the digest (32 in the code, here one
\* per limb), expanded from the sponge state.
sample(tr) == [j \in 1 .. NumLimbs |-> (Squeeze(tr) * (2 * j + 1) + j) % LimbBase]

after_sample(tr, what) ==
    [state |-> Squeeze(tr),
     log   |-> Append(tr.log, [op |-> "sample", what |-> what, val |-> sample(tr)])]

RECURSIVE from_bytes_be_upto(_, _)
from_bytes_be_upto(bytes, k) ==
    IF k = 0 THEN 0 ELSE from_bytes_be_upto(bytes, k - 1) * LimbBase + bytes[k]

\* U256::from_bytes_be: the first byte is the most significant.
from_bytes_be(bytes) == from_bytes_be_upto(bytes, Len(bytes))

\* U256::div_rem: quotient and remainder.
div_rem(n, d) == <<n \div d, n % d>>

RECURSIVE Power(_, _)
Power(b, e) == IF e = 0 THEN 1 ELSE b * Power(b, e - 1)

\* U256.limbs: the most significant limb first, limbs[3] the least.
limbs(n) == [j \in 1 .. NumLimbs |-> (n \div Power(LimbBase, NumLimbs - j)) % LimbBase]

\* A plausible slip: the most significant limb is read.
query_index_TopLimb(bytes, domain_size) ==
    limbs(div_rem(from_bytes_be(bytes), domain_size)[2])[1]

\* The closure of sample_queries: the sampled bytes as an integer, its
\* remainder by domain_size, limbs[3] of it as usize.
query_index(bytes, domain_size) ==
    limbs(div_rem(from_bytes_be(bytes), domain_size)[2])[NumLimbs]

RECURSIVE sample_queries_from(_, _, _)
sample_queries_from(k, domain_size, tr) ==
    IF k = 0 THEN <<>>
    ELSE <<query_index(sample(tr), domain_size)>>
         \o sample_queries_from(k - 1, domain_size, after_sample(tr, "query"))

\* common::sample_queries: num_queries indices, each a squeeze mod domain_size.
sample_queries(num_queries, domain_size, tr) ==
    sample_queries_from(num_queries, domain_size, tr)

RECURSIVE after_sample_queries(_, _)
after_sample_queries(num_queries, tr) ==
    IF num_queries = 0 THEN tr
    ELSE after_sample_queries(num_queries - 1, after_sample(tr, "query"))

\* ------------------------------------------------------------ parameters
\* const INT_DOM_SIZE (the code's 1024, scaled): the default trace length,
\* also the literal 1024 of x0.pow(1024) and, less 3, the literal 1021.
INT_DOM_SIZE == 4

\* const BLOWUP_FACTOR, and the step of the literal aux indices 0, 8, 16.
BLOWUP_FACTOR == 8

\* const EVAL_DOM_SIZE = BLOWUP_FACTOR * INT_DOM_SIZE.
EVAL_DOM_SIZE == BLOWUP_FACTOR * INT_DOM_SIZE

\* let offset = FE::from(2_u64).
OFFSET == 2

\* The largest witness a[1] and the largest number of queries tried.
MaxWitness == 3

MaxQueries == 2

\* The polynomials the fold and division checks draw: coefficients up to
\* MaxCoef, degree up to MaxDegree; the points and challenges up to MaxPoint
\* from either end of the field.
MaxCoef == 2

MaxDegree == 3

MaxPoint == 4

\* The sponge states the index sampling is tried from.
MaxSeed == 40

\* The (int_dom_size, eval_dom_size) pairs a public input may carry: the
\* default, a longer trace at the same blowup, and a smaller blowup.
DomainSizes ==
    { <<INT_DOM_SIZE, EVAL_DOM_SIZE>>,
      <<2 * INT_DOM_SIZE, 2 * EVAL_DOM_SIZE>>,
      <<INT_DOM_SIZE, EVAL_DOM_SIZE \div 2>> }

RECURSIVE FibSquared(_, _, _)
\* The FibonacciSq trace: a[i] = a[i-2]^2 + a[i-1]^2.
FibSquared(n, first_elem, witness_elem) ==
    IF n = 1 THEN <<first_elem>>
    ELSE IF n = 2 THEN <<first_elem, witness_elem>>
    ELSE LET t == FibSquared(n - 1, first_elem, witness_elem)
         IN  Append(t, FAdd(FPow(t[n - 2], 2), FPow(t[n - 1], 2)))

VARIABLES
    pub,        \* PublicInput: modulus, int_dom_size, eval_dom_size,
                \* num_queries, fib_squared_0, fib_squared_1022
    witness,    \* the prover's a[1]
    pc,         \* where the run stands
    trace,      \* the prover's trace polynomial, its evaluations, its tree
    cons,       \* the prover's constraint polynomials
    comp,       \* the prover's challenges, composition polynomial, queries
    fri,        \* what commit_and_fold went through, layer by layer
    ptr,        \* the prover's transcript
    proof,      \* the StarkProof handed to the verifier
    tamper,     \* what was changed in the proof on its way
    vtr,        \* the verifier's transcript
    ver,        \* what verify_proof computed and returned
    dec         \* what decommit_and_fold computed and returned

vars == <<pub, witness, pc, trace, cons, comp, fri, ptr, proof, tamper, vtr, ver, dec>>

None == [none |-> TRUE]

\* ----------------------------------------------------------------- prover
\* A plausible slip: the result element is not asserted before the
\* commitment.
TracePart_NoResultCheck(n, d, first_elem, witness_elem, result_elem) ==
    LET g             == get_primitive_root_of_unity(Log2(n))
        fib_squared   == FibSquared(n, first_elem, witness_elem)
        trace_poly    == interpolate_fft(fib_squared)
        asserts       == /\ Len(trace_poly) = n
                         /\ Evaluate(trace_poly, 1) = first_elem
                         /\ Evaluate(trace_poly, g) = witness_elem
                         /\ FPow(OFFSET, n) # 1
        trace_eval    == evaluate_offset_fft(trace_poly, d \div n, 0, OFFSET)
    IN  IF ~asserts THEN [ok |-> FALSE, fib_squared |-> fib_squared, poly |-> trace_poly]
        ELSE [ok |-> Len(trace_eval) = d, fib_squared |-> fib_squared,
              poly |-> trace_poly, eval |-> trace_eval, root |-> MerkleRoot(trace_eval)]

\* Part 1 of generate_proof: the trace, its polynomial, its low-degree
\* extension.  The prover is built for the sizes of the public input.
TracePart(n, d, first_elem, witness_elem, result_elem) ==
    LET g             == get_primitive_root_of_unity(Log2(n))
        g_to_the_1022 == FPow(g, n - 2)
        fib_squared   == FibSquared(n, first_elem, witness_elem)
        trace_poly    == interpolate_fft(fib_squared)
        asserts       == /\ Len(trace_poly) = n
                         /\ Evaluate(trace_poly, 1) = first_elem
                         /\ Evaluate(trace_poly, g) = witness_elem
                         /\ Evaluate(trace_poly, g_to_the_1022) = result_elem
                         /\ FPow(OFFSET, n) # 1
        trace_eval    == evaluate_offset_fft(trace_poly, d \div n, 0, OFFSET)
    IN  IF ~asserts THEN [ok |-> FALSE, fib_squared |-> fib_squared, poly |-> trace_poly]
        ELSE [ok |-> Len(trace_eval) = d, fib_squared |-> fib_squared,
              poly |-> trace_poly, eval |-> trace_eval, root |-> MerkleRoot(trace_eval)]

\* Part 2 of generate_proof: the three constraint polynomials.
ConstraintPart(n, d, first_elem, result_elem, trace_poly) ==
    LET g             == get_primitive_root_of_unity(Log2(n))
        g_to_the_1021 == FPow(g, n - 3)
        g_to_the_1022 == FMul(g, g_to_the_1021)
        g_to_the_1023 == FMul(g, g_to_the_1022)
        x             == Monomial(1, 1)
        x_to_the_1024 == Monomial(1, n)
        initial_num   == PolySubConst(trace_poly, first_elem)
        initial_den   == PolySubConst(x, 1)
        initial       == polynomial_division(initial_num, initial_den, d, OFFSET)
        result_num    == PolySubConst(trace_poly, result_elem)
        result_den    == PolySubConst(x, g_to_the_1022)
        result        == polynomial_division(result_num, result_den, d, OFFSET)
        scaled_once   == Scale(trace_poly, g)
        scaled_twice  == Scale(scaled_once, g)
        squared       == polynomial_power(trace_poly, 2, d, OFFSET)
        once_squared  == polynomial_power(scaled_once, 2, d, OFFSET)
        numerator     == polynomial_multiplication(
                             << PolySub(PolySub(scaled_twice, once_squared), squared),
                                PolySubConst(x, g_to_the_1021),
                                PolySubConst(x, g_to_the_1022),
                                PolySubConst(x, g_to_the_1023) >>, d, OFFSET)
        denominator   == PolySubConst(x_to_the_1024, 1)
        transition    == polynomial_division(numerator, denominator, d, OFFSET)
        panics        == \/ division_panics(initial_den, d, OFFSET)
                         \/ division_panics(result_den, d, OFFSET)
                         \/ division_panics(denominator, d, OFFSET)
        asserts       == /\ Len(initial) = n - 1
                         /\ Len(result) = n - 1
                         /\ Len(squared) <= 2 * n
                         /\ Len(once_squared) <= 2 * n
                         /\ Evaluate(scaled_twice, g_to_the_1021)
                              = FAdd(Evaluate(once_squared, g_to_the_1021),
                                     Evaluate(squared, g_to_the_1021))
                         /\ Len(transition) <= 2 * n
    IN  IF panics THEN [ok |-> FALSE]
        ELSE [ok |-> asserts,
              initial_num |-> initial_num, initial_den |-> initial_den,
              initial |-> initial,
              result_num |-> result_num, result_den |-> result_den,
              result |-> result,
              numerator |-> numerator, denominator |-> denominator,
              transition |-> transition]

\* prover::generate_proof: returns with the constraint polynomials built,
\* or aborts at the first assertion that fails.
GenerateProof ==
    /\ pc = "start"
    /\ LET t == TracePart(pub.int_dom_size, pub.eval_dom_size,
                          pub.fib_squared_0, witness, pub.fib_squared_1022)
       IN  /\ trace' = t
           /\ IF ~t.ok
              THEN /\ cons' = None
                   /\ pc' = "aborted"
              ELSE LET c == ConstraintPart(pub.int_dom_size, pub.eval_dom_size,
                                           pub.fib_squared_0, pub.fib_squared_1022,
                                           t.poly)
                   IN  /\ cons' = c
                       /\ pc' = IF c.ok THEN "constrained" ELSE "aborted"
    /\ UNCHANGED <<pub, witness, comp, fri, ptr, proof, tamper, vtr, ver, dec>>

\* The public input as both sides absorb it, in this order.
AbsorbPublicInput(tr, pi) ==
    LET t1 == append_bytes(tr, "modulus", pi.modulus)
        t2 == append_bytes(t1, "int_dom_size", pi.int_dom_size)
        t3 == append_bytes(t2, "eval_dom_size", pi.eval_dom_size)
        t4 == append_bytes(t3, "num_queries", pi.num_queries)
        t5 == append_bytes(t4, "fib_squared_0", pi.fib_squared_0)
    IN  append_bytes(t5, "fib_squared_1022", pi.fib_squared_1022)

\* VectorCommitment::generate_inclusion_proofs: one InclusionProof (value,
\* path) per index, in the order of the indices.
generate_inclusion_proofs(indices, poly_eval) ==
    [k \in 1 .. Len(indices) |->
        [eval  |-> poly_eval[indices[k] + 1],
         proof |-> get_proof_by_pos(poly_eval, indices[k])]]

\* The three indices opened for query q at blowup b, as a flat list.
TraceIndices(query_indices, b, d) ==
    [k \in 1 .. 3 * Len(query_indices) |->
        (query_indices[(k - 1) \div 3 + 1] + ((k - 1) % 3) * b) % d]

\* The prover's orchestration up to the FRI commitment: absorb the public
\* input and the trace root, sample the three coefficients, form the
\* composition polynomial, sample the queries, open the trace.
Compose ==
    /\ pc = "constrained"
    /\ LET t0 == AbsorbPublicInput(NewTranscript, pub)
           t1 == append_bytes(t0, "trace_root", Fingerprint(trace.root))
           a  == sample_field_element(t1)
           t2 == after_sample_field(t1, "a")
           b  == sample_field_element(t2)
           t3 == after_sample_field(t2, "b")
           c  == sample_field_element(t3)
           t4 == after_sample_field(t3, "c")
           h  == PolyAdd(PolyAdd(PolyScalarMul(a, cons.initial),
                                 PolyScalarMul(b, cons.result)),
                         PolyScalarMul(c, cons.transition))
           qs == sample_queries(pub.num_queries, pub.eval_dom_size, t4)
           t5 == after_sample_queries(pub.num_queries, t4)
           ix == TraceIndices(qs, pub.eval_dom_size \div pub.int_dom_size,
                              pub.eval_dom_size)
       IN  /\ comp' = [a |-> a, b |-> b, c |-> c, poly |-> h,
                       query_indices |-> qs, all_indices |-> ix]
           /\ ptr' = t5
           /\ proof' = [trace_root   |-> trace.root,
                        trace_proofs |-> generate_inclusion_proofs(ix, trace.eval),
                        fri_layers   |-> <<>>]
    /\ pc' = "composed"
    /\ UNCHANGED <<pub, witness, trace, cons, fri, tamper, vtr, ver, dec>>

\* -------------------------------------------------------------------- FRI
\* fri::commit: the evaluations on the offset domain (their tree is
\* MerkleRoot / get_proof_by_pos of them).
commit(polynomial, domain_size, offset) ==
    evaluate_offset_fft(polynomial, 1, domain_size, offset)

\* A plausible slip: the offset is not squared.
fold_OffsetKept(polynomial, domain_size, offset, beta) ==
    <<fold_polynomial(polynomial, beta), domain_size \div 2, offset>>

\* fri::fold: the folded polynomial, half the domain, the squared offset.
fold(polynomial, domain_size, offset, beta) ==
    <<fold_polynomial(polynomial, beta), domain_size \div 2, FMul(offset, offset)>>

\* The FriLayer pushed for one committed polynomial: layer 0 opens the
\* query index itself, the later layers the index mod domain_size.
NewFriLayer(eval, domain_size, query_indices, k) ==
    [root |-> MerkleRoot(eval),
     validation_data |->
        [i \in 1 .. Len(query_indices) |->
            LET idx     == IF k = 0 THEN query_indices[i]
                           ELSE query_indices[i] % domain_size
                sym_idx == (idx + domain_size \div 2) % domain_size
            IN  [proof     |-> get_proof_by_pos(eval, idx),
                 sym_eval  |-> eval[sym_idx + 1],
                 sym_proof |-> get_proof_by_pos(eval, sym_idx)]]]

\* A plausible slip: one folding too few.
number_of_foldings_OneLess(polynomial) ==
    MaxOf(0, BitLength(Degree(polynomial)) - 1)

\* usize::BITS - polynomial.degree().leading_zeros().
number_of_foldings(polynomial) == BitLength(Degree(polynomial))

RECURSIVE recursive_foldings(_, _, _, _, _, _, _)
\* The loop "for k in 1..=number_of_foldings" of commit_and_fold.
recursive_foldings(polynomial, domain_size, offset, query_indices, tr, k, n) ==
    IF k > n THEN [layers |-> <<>>, steps |-> <<>>, tr |-> tr]
    ELSE LET beta == sample_field_element(tr)
             tr1  == after_sample_field(tr, "beta")
             f    == fold(polynomial, domain_size, offset, beta)
             eval == commit(f[1], f[2], f[3])
             tr2  == append_bytes(tr1, "fri_root", Fingerprint(MerkleRoot(eval)))
             rest == recursive_foldings(f[1], f[2], f[3], query_indices, tr2, k + 1, n)
         IN  [layers |-> <<NewFriLayer(eval, f[2], query_indices, k)>> \o rest.layers,
              steps  |-> <<[polynomial |-> f[1], domain_size |-> f[2],
                            offset |-> f[3], beta |-> beta, eval |-> eval]>>
                         \o rest.steps,
              tr     |-> rest.tr]

\* fri::commit_and_fold: the layers, what each was built from, and the
\* transcript it leaves.
commit_and_fold(polynomial, domain_size, offset, query_indices, tr) ==
    LET eval == commit(polynomial, domain_size, offset)
        tr1  == append_bytes(tr, "fri_root", Fingerprint(MerkleRoot(eval)))
        rest == recursive_foldings(polynomial, domain_size, offset, query_indices,
                                   tr1, 1, number_of_foldings(polynomial))
    IN  [layers |-> <<NewFriLayer(eval, domain_size, query_indices, 0)>> \o rest.layers,
         steps  |-> <<[polynomial |-> polynomial, domain_size |-> domain_size,
                       offset |-> offset, beta |-> 0, eval |-> eval]>> \o rest.steps,
         tr     |-> rest.tr]

\* The prover runs commit_and_fold on the composition polynomial and
\* emits the proof.
CommitAndFold ==
    /\ pc = "composed"
    /\ LET r == commit_and_fold(comp.poly, pub.eval_dom_size, OFFSET,
                                comp.query_indices, ptr)
       IN  /\ fri' = [steps |-> r.steps]
           /\ ptr' = r.tr
           /\ proof' = [proof EXCEPT !.fri_layers = r.layers]
    /\ pc' = "proved"
    /\ UNCHANGED <<pub, witness, trace, cons, comp, tamper, vtr, ver, dec>>

\* A plausible slip: the odd part is not divided by the query point.
curr_layer_query_evals_NoInverse(query, eval, sym_eval, beta) ==
    FMul(FAdd(FAdd(eval, sym_eval), FMul(beta, FSub(eval, sym_eval))), FInv(2))

\* fri::curr_layer_query_evals.
curr_layer_query_evals(query, eval, sym_eval, beta) ==
    LET query_inv == FInv(query)
        two_inv   == FInv(2)
    IN  FMul(FAdd(FAdd(eval, sym_eval),
                  FMul(FMul(beta, FSub(eval, sym_eval)), query_inv)),
             two_inv)

\* A plausible slip: only the opening at the query index is checked.
OpeningsVerify_NoSym(vd, root, idx, sym_idx, eval) ==
    ProofVerify(vd.proof, root, idx, eval)

\* The test both loops of decommit_and_fold make of one query: the
\* opening of eval at idx and the opening of sym_eval at sym_idx.
OpeningsVerify(vd, root, idx, sym_idx, eval) ==
    /\ ProofVerify(vd.proof, root, idx, eval)
    /\ ProofVerify(vd.sym_proof, root, sym_idx, vd.sym_eval)

RECURSIVE first_layer_queries(_, _, _, _, _, _)
\* The loop over the queries of layer 0 in decommit_and_fold, from query i:
\* "true" when all pass, "false" at the first failed opening, "panic" at
\* the first index out of bounds.
first_layer_queries(layer, domain_size, query_indices, query_evals, i, sym_evals) ==
    IF i > Len(query_indices) THEN [ret |-> "true", sym_evals |-> sym_evals]
    ELSE IF i > Len(query_evals) \/ i > Len(layer.validation_data)
    THEN [ret |-> "panic", sym_evals |-> sym_evals]
    ELSE LET idx     == query_indices[i]
             sym_idx == (idx + domain_size \div 2) % domain_size
             vd      == layer.validation_data[i]
             pushed  == Append(sym_evals, vd.sym_eval)
         IN  IF ~OpeningsVerify(vd, layer.root, idx, sym_idx, query_evals[i])
             THEN [ret |-> "false", sym_evals |-> pushed]
             ELSE first_layer_queries(layer, domain_size, query_indices,
                                      query_evals, i + 1, pushed)

RECURSIVE layer_queries(_, _, _, _, _, _, _, _)
\* The loop over the queries of a later layer, from query i.
layer_queries(layer, domain_size, query_indices, queries, query_evals, sym_evals, beta, i) ==
    IF i > Len(query_indices)
    THEN [ret |-> "true", queries |-> queries, query_evals |-> query_evals,
          sym_evals |-> sym_evals]
    ELSE IF \/ i > Len(queries) \/ i > Len(query_evals) \/ i > Len(sym_evals)
            \/ queries[i] = 0
            \/ domain_size = 0
            \/ i > Len(layer.validation_data)
    THEN [ret |-> "panic", queries |-> queries, query_evals |-> query_evals,
          sym_evals |-> sym_evals]
    ELSE LET eval    == curr_layer_query_evals(queries[i], query_evals[i],
                                               sym_evals[i], beta)
             evals1  == [query_evals EXCEPT ![i] = eval]
             qs1     == [queries EXCEPT ![i] = FMul(queries[i], queries[i])]
             idx     == query_indices[i] % domain_size
             sym_idx == (idx + domain_size \div 2) % domain_size
             vd      == layer.validation_data[i]
             syms1   == [sym_evals EXCEPT ![i] = vd.sym_eval]
         IN  IF ~OpeningsVerify(vd, layer.root, idx, sym_idx, eval)
             THEN [ret |-> "false", queries |-> qs1, query_evals |-> evals1,
                   sym_evals |-> syms1]
             ELSE layer_queries(layer, domain_size, query_indices, qs1, evals1,
                                syms1, beta, i + 1)

\* A plausible slip: the root is absorbed before beta is sampled.
LayerTranscript_RootFirst(tr, root) ==
    LET tr1 == append_bytes(tr, "fri_root", Fingerprint(root))
    IN  [beta |-> sample_field_element(tr1), tr |-> after_sample_field(tr1, "beta")]

\* The transcript steps of one later layer of decommit_and_fold: sample
\* beta, then absorb the layer's root.
LayerTranscript(tr, root) ==
    LET tr1 == after_sample_field(tr, "beta")
    IN  [beta |-> sample_field_element(tr),
         tr   |-> append_bytes(tr1, "fri_root", Fingerprint(root))]

RECURSIVE decommit_layers(_, _, _, _, _, _, _, _)
\* The loop "for (k, layer) in layers.iter().enumerate().skip(1)".
decommit_layers(layers, k, domain_size, query_indices, queries, query_evals, sym_evals, tr) ==
    IF k > Len(layers)
    THEN [ret |-> "true", queries |-> queries, query_evals |-> query_evals,
          sym_evals |-> sym_evals, tr |-> tr, domain_size |-> domain_size]
    ELSE LET lt == LayerTranscript(tr, layers[k].root)
             ds == domain_size \div 2
             r  == layer_queries(layers[k], ds, query_indices, queries, query_evals,
                                 sym_evals, lt.beta, 1)
         IN  IF r.ret # "true"
             THEN [ret |-> r.ret, queries |-> r.queries, query_evals |-> r.query_evals,
                   sym_evals |-> r.sym_evals, tr |-> lt.tr, domain_size |-> ds]
             ELSE decommit_layers(layers, k + 1, ds, query_indices, r.queries,
                                  r.query_evals, r.sym_evals, lt.tr)

\* fri::decommit_and_fold: what it returns ("true", "false", or "panic"
\* for an index out of bounds or an unwrap of None) and what it leaves.
decommit_and_fold(layers, domain_size, query_indices, queries, query_evals, tr) ==
    IF Len(layers) = 0
    THEN [ret |-> "panic", queries |-> queries, query_evals |-> query_evals,
          sym_evals |-> <<>>, tr |-> tr, domain_size |-> domain_size]
    ELSE LET tr1 == append_bytes(tr, "fri_root", Fingerprint(layers[1].root))
             r0  == first_layer_queries(layers[1], domain_size, query_indices,
                                        query_evals, 1, <<>>)
         IN  IF r0.ret # "true"
             THEN [ret |-> r0.ret, queries |-> queries, query_evals |-> query_evals,
                   sym_evals |-> r0.sym_evals, tr |-> tr1, domain_size |-> domain_size]
             ELSE decommit_layers(layers, 2, domain_size, query_indices, queries,
                                  query_evals, r0.sym_evals, tr1)

\* --------------------------------------------------------------- verifier
\* let aux_indices = vec![0_usize, 8, 16].
aux_indices == <<0, 8, 16>>

\* verify_inclusion_proofs: the indices zipped with the stored proofs,
\* every pair verified against the root.
verify_inclusion_proofs(indices, inclusion_proofs, root) ==
    \A k \in 1 .. MinOf(Len(indices), Len(inclusion_proofs)) :
        ProofVerify(inclusion_proofs[k].proof, root, indices[k], inclusion_proofs[k].eval)

\* A plausible slip: the offsets of the opened rows are taken in another order.
AllIndices_Swapped(query_indices, eval_dom_size) ==
    [k \in 1 .. Len(aux_indices) * Len(query_indices) |->
        (query_indices[(k - 1) \div Len(aux_indices) + 1]
           + aux_indices[Len(aux_indices) - ((k - 1) % Len(aux_indices))])
        % eval_dom_size]

\* all_indices of verify_proof: for each query, the query index plus each
\* aux index, mod eval_dom_size, concatenated.
AllIndices(query_indices, eval_dom_size) ==
    [k \in 1 .. Len(aux_indices) * Len(query_indices) |->
        (query_indices[(k - 1) \div Len(aux_indices) + 1]
           + aux_indices[((k - 1) % Len(aux_indices)) + 1])
        % eval_dom_size]

\* A plausible slip: the second boundary quotient is taken at g^1021.
CompositionEval_WrongPoint(a, b, c, t, x0, g, fib_squared_0, fib_squared_1022) ==
    LET g_to_the_1021 == FPow(g, INT_DOM_SIZE - 3)
        g_to_the_1022 == FMul(g, g_to_the_1021)
        g_to_the_1023 == FMul(g, g_to_the_1022)
    IN  FAdd(FAdd(FDiv(FMul(a, FSub(t[1], fib_squared_0)), FSub(x0, 1)),
                  FDiv(FMul(b, FSub(t[1], fib_squared_1022)), FSub(x0, g_to_the_1021))),
             FMul(c, FDiv(FMul(FMul(FMul(FSub(FSub(t[3], FMul(t[2], t[2])),
                                              FMul(t[1], t[1])),
                                         FSub(x0, g_to_the_1021)),
                                    FSub(x0, g_to_the_1022)),
                               FSub(x0, g_to_the_1023)),
                          FSub(FPow(x0, INT_DOM_SIZE), 1))))

\* The closure of comp_poly_query_evals: the composition polynomial at x0
\* from the three opened trace values t.
CompositionEval(a, b, c, t, x0, g, fib_squared_0, fib_squared_1022) ==
    LET g_to_the_1021 == FPow(g, INT_DOM_SIZE - 3)
        g_to_the_1022 == FMul(g, g_to_the_1021)
        g_to_the_1023 == FMul(g, g_to_the_1022)
    IN  FAdd(FAdd(FDiv(FMul(a, FSub(t[1], fib_squared_0)), FSub(x0, 1)),
                  FDiv(FMul(b, FSub(t[1], fib_squared_1022)), FSub(x0, g_to_the_1022))),
             FMul(c, FDiv(FMul(FMul(FMul(FSub(FSub(t[3], FMul(t[2], t[2])),
                                              FMul(t[1], t[1])),
                                         FSub(x0, g_to_the_1021)),
                                    FSub(x0, g_to_the_1022)),
                               FSub(x0, g_to_the_1023)),
                          FSub(FPow(x0, INT_DOM_SIZE), 1))))

\* The denominators of CompositionEval: a zero one panics the division.
CompositionDenominators(x0, g) ==
    << FSub(x0, 1),
       FSub(x0, FPow(g, INT_DOM_SIZE - 2)),
       FSub(FPow(x0, INT_DOM_SIZE), 1) >>

\* verifier::verify_proof: what it returns ("true", "false", or "panic")
\* and what it computed on the way.
verify_proof(public_input, stark_proof) ==
    LET tr0  == AbsorbPublicInput(NewTranscript, public_input)
        g    == get_primitive_root_of_unity(Log2(public_input.int_dom_size))
        w    == get_primitive_root_of_unity(Log2(public_input.eval_dom_size))
        tr1  == append_bytes(tr0, "trace_root", Fingerprint(stark_proof.trace_root))
        a    == sample_field_element(tr1)
        tr2  == after_sample_field(tr1, "a")
        b    == sample_field_element(tr2)
        tr3  == after_sample_field(tr2, "b")
        c    == sample_field_element(tr3)
        tr4  == after_sample_field(tr3, "c")
        query_indices == sample_queries(public_input.num_queries,
                                        public_input.eval_dom_size, tr4)
        tr5  == after_sample_queries(public_input.num_queries, tr4)
        all_indices == AllIndices(query_indices, public_input.eval_dom_size)
        opened == verify_inclusion_proofs(all_indices, stark_proof.trace_proofs,
                                          stark_proof.trace_root)
        queries == [i \in 1 .. Len(query_indices) |->
                       FMul(OFFSET, FPow(w, query_indices[i]))]
        short  == Len(stark_proof.trace_proofs) < Len(aux_indices) * Len(query_indices)
        zero   == \E i \in 1 .. Len(query_indices) : \E k \in 1 .. 3 :
                      CompositionDenominators(queries[i], g)[k] = 0
        t(i)   == [k \in 1 .. Len(aux_indices) |->
                      stark_proof.trace_proofs[Len(aux_indices) * (i - 1) + k].eval]
        evals  == [i \in 1 .. Len(query_indices) |->
                      CompositionEval(a, b, c, t(i), queries[i], g,
                                      public_input.fib_squared_0,
                                      public_input.fib_squared_1022)]
        base   == [tr |-> tr5, a |-> a, b |-> b, c |-> c, g |-> g, w |-> w,
                   query_indices |-> query_indices, all_indices |-> all_indices,
                   queries |-> queries, opened |-> opened]
    IN  IF ~opened
        THEN [ret |-> "false", comp_poly_query_evals |-> <<>>] @@ base
        ELSE IF short \/ zero
        THEN [ret |-> "panic", comp_poly_query_evals |-> <<>>] @@ base
        ELSE [ret |-> "true", comp_poly_query_evals |-> evals] @@ base

\* ---------------------------------------------------------------- actions
\* The claimed a[1022] is the one the witness reaches, or one it does not.
Init ==
    /\ witness \in 1 .. MaxWitness
    /\ \E s \in DomainSizes, nq \in 1 .. MaxQueries, wrong \in 0 .. 1 :
          pub = [modulus          |-> FieldModulus,
                 int_dom_size     |-> s[1],
                 eval_dom_size    |-> s[2],
                 num_queries      |-> nq,
                 fib_squared_0    |-> 1,
                 fib_squared_1022 |-> FAdd(FibSquared(s[1], 1, witness)[s[1] - 1], wrong)]
    /\ pc = "start"
    /\ trace = None
    /\ cons = None
    /\ comp = None
    /\ fri = None
    /\ ptr = NewTranscript
    /\ proof = None
    /\ tamper = "none"
    /\ vtr = NewTranscript
    /\ ver = None
    /\ dec = None

\* The proof reaches the verifier as the prover built it.
Deliver ==
    /\ pc = "proved"
    /\ pc' = "sent"
    /\ UNCHANGED <<pub, witness, trace, cons, comp, fri, ptr, proof, tamper, vtr, ver, dec>>

Sent(kind, p) ==
    /\ pc' = "sent"
    /\ tamper' = kind
    /\ proof' = p
    /\ UNCHANGED <<pub, witness, trace, cons, comp, fri, ptr, vtr, ver, dec>>

\* One bit of Root_T is flipped.
TamperTraceRoot ==
    /\ pc = "proved"
    /\ Sent("trace_root", [proof EXCEPT !.trace_root = FlipDigest(@)])

\* One opened trace value is changed.
TamperTraceValue ==
    /\ pc = "proved"
    /\ \E k \in 1 .. Len(proof.trace_proofs) :
          Sent("trace_value", [proof EXCEPT !.trace_proofs[k].eval = FAdd(@, 1)])

\* One node of the authentication path of a trace opening is changed.
TamperTracePath ==
    /\ pc = "proved"
    /\ \E k \in 1 .. Len(proof.trace_proofs) :
          \E j \in 1 .. Len(proof.trace_proofs[k].proof) :
              Sent("trace_path",
                   [proof EXCEPT !.trace_proofs[k].proof[j] = FlipDigest(@)])

\* One bit of the root of a FRI layer is flipped.
TamperFriRoot ==
    /\ pc = "proved"
    /\ \E l \in 1 .. Len(proof.fri_layers) :
          Sent("fri_root", [proof EXCEPT !.fri_layers[l].root = FlipDigest(@)])

\* One sym_eval of a FRI layer is changed.
TamperSymEval ==
    /\ pc = "proved"
    /\ \E l \in 1 .. Len(proof.fri_layers) :
          \E i \in 1 .. Len(proof.fri_layers[l].validation_data) :
              Sent("sym_eval",
                   [proof EXCEPT !.fri_layers[l].validation_data[i].sym_eval
                                    = FAdd(@, 1)])

\* One node of the authentication path of a FRI opening is changed.
TamperFriPath ==
    /\ pc = "proved"
    /\ \E l \in 1 .. Len(proof.fri_layers) :
          \E i \in 1 .. Len(proof.fri_layers[l].validation_data) :
              \E j \in 1 .. Len(proof.fri_layers[l].validation_data[i].proof) :
                  Sent("fri_path",
                       [proof EXCEPT !.fri_layers[l].validation_data[i].proof[j]
                                        = FlipDigest(@)])

\* One node of the authentication path of a FRI symmetric opening is changed.
TamperFriSymPath ==
    /\ pc = "proved"
    /\ \E l \in 1 .. Len(proof.fri_layers) :
          \E i \in 1 .. Len(proof.fri_layers[l].validation_data) :
              \E j \in 1 .. Len(proof.fri_layers[l].validation_data[i].sym_proof) :
                  Sent("fri_sym_path",
                       [proof EXCEPT !.fri_layers[l].validation_data[i].sym_proof[j]
                                        = FlipDigest(@)])

\* The last FRI layers are left out of the proof.
DropLayers ==
    /\ pc = "proved"
    /\ \E n \in 1 .. Len(proof.fri_layers) - 1 :
          Sent("dropped_layers", [proof EXCEPT !.fri_layers = SubSeq(@, 1, n)])

\* The trace commitment carries fewer inclusion proofs than indices are
\* verified, down to none.
DropTraceProofs ==
    /\ pc = "proved"
    /\ \E n \in 0 .. Len(proof.trace_proofs) - 1 :
          Sent("short_trace", [proof EXCEPT !.trace_proofs = SubSeq(@, 1, n)])

\* The proof carries no FRI layer at all.
NoLayers ==
    /\ pc = "proved"
    /\ Sent("no_layers", [proof EXCEPT !.fri_layers = <<>>])

\* One FRI layer carries fewer validation entries than there are queries.
DropValidation ==
    /\ pc = "proved"
    /\ \E l \in 1 .. Len(proof.fri_layers) :
          \E n \in 0 .. Len(proof.fri_layers[l].validation_data) - 1 :
              Sent("short_validation",
                   [proof EXCEPT !.fri_layers[l].validation_data = SubSeq(@, 1, n)])

\* The verifier calls verify_proof on the public input and the proof.
VerifyProof ==
    /\ pc = "sent"
    /\ LET r == verify_proof(pub, proof)
       IN  /\ ver' = r
           /\ vtr' = r.tr
    /\ pc' = "verified"
    /\ UNCHANGED <<pub, witness, trace, cons, comp, fri, ptr, proof, tamper, dec>>

\* The FRI check that follows verify_proof, on the values it recomputed.
DecommitAndFold ==
    /\ pc = "verified"
    /\ ver.ret = "true"
    /\ LET r == decommit_and_fold(proof.fri_layers, pub.eval_dom_size,
                                  ver.query_indices, ver.queries,
                                  ver.comp_poly_query_evals, vtr)
       IN  /\ dec' = r
           /\ vtr' = r.tr
    /\ pc' = "done"
    /\ UNCHANGED <<pub, witness, trace, cons, comp, fri, ptr, proof, tamper, ver>>

\* decommit_and_fold called with fewer claimed evaluations than there are
\* query indices.
DecommitShort ==
    /\ pc = "verified"
    /\ ver.ret = "true"
    /\ tamper = "none"
    /\ \E n \in 0 .. Len(ver.comp_poly_query_evals) - 1 :
          LET r == decommit_and_fold(proof.fri_layers, pub.eval_dom_size,
                                     ver.query_indices, ver.queries,
                                     SubSeq(ver.comp_poly_query_evals, 1, n), vtr)
          IN  /\ dec' = r
              /\ vtr' = r.tr
    /\ tamper' = "short_evals"
    /\ pc' = "done"
    /\ UNCHANGED <<pub, witness, trace, cons, comp, fri, ptr, proof, ver>>

Next ==
    \/ GenerateProof
    \/ Compose
    \/ CommitAndFold
    \/ Deliver
    \/ TamperTraceRoot
    \/ TamperTraceValue
    \/ TamperTracePath
    \/ TamperFriRoot
    \/ TamperSymEval
    \/ TamperFriPath
    \/ TamperFriSymPath
    \/ DropLayers
    \/ DropTraceProofs
    \/ NoLayers
    \/ DropValidation
    \/ VerifyProof
    \/ DecommitAndFold
    \/ DecommitShort

Spec == Init /\ [][Next]_vars

\* ----------------------------------------------------------------- claims
\* The public input carries the sizes the protocol fixes.
DefaultSizes ==
    /\ pub.int_dom_size = INT_DOM_SIZE
    /\ pub.eval_dom_size = EVAL_DOM_SIZE

\* What the verifier (verify_proof, then decommit_and_fold on the values
\* it recomputed) answered; "pending" while it has not.
Verdict ==
    IF pc = "verified" /\ ver.ret # "true" THEN ver.ret
    ELSE IF pc = "done" THEN dec.ret
    ELSE "pending"

SingleComponent ==
    {"trace_root", "trace_value", "trace_path", "fri_root", "sym_eval",
     "fri_path", "fri_sym_path"}

C3_AcceptsOnlyAfterFri ==
    (pc = "done" /\ ver.ret = "true") => dec.ret = "true"

\* The calls a transcript logged, without the values.
Calls(log) == [k \in 1 .. Len(log) |-> <<log[k].op, log[k].what>>]

\* The calls the protocol prescribes for nq queries and l foldings.
PrescribedCalls(nq, l) ==
    << <<"append", "modulus">>, <<"append", "int_dom_size">>,
       <<"append", "eval_dom_size">>, <<"append", "num_queries">>,
       <<"append", "fib_squared_0">>, <<"append", "fib_squared_1022">>,
       <<"append", "trace_root">>,
       <<"sample_field", "a">>, <<"sample_field", "b">>, <<"sample_field", "c">> >>
    \o [k \in 1 .. nq |-> <<"sample", "query">>]
    \o << <<"append", "fri_root">> >>
    \o [k \in 1 .. 2 * l |->
          IF k % 2 = 1 THEN <<"sample_field", "beta">> ELSE <<"append", "fri_root">>]

FinalConstant == Coef(fri.steps[Len(fri.steps)].polynomial, 0)

\* C5 (final-constant check): the prover's transcript ends with the
\* absorption of the final constant, and decommit_and_fold returns true
\* only if every query's reconstructed value equals that constant.
C5_FinalConstantChecked ==
    /\ pc \in {"proved", "sent", "verified", "done"}
          => ptr.log[Len(ptr.log)].what = "final_constant"
    /\ (pc = "done" /\ dec.ret = "true")
          => \A i \in 1 .. Len(dec.query_evals) : dec.query_evals[i] = FinalConstant

\* The second conjunct alone: an accepted FRI check reconstructed the
\* final constant.
C5_AcceptedIsConstant ==
    (pc = "done" /\ dec.ret = "true")
        => \A i \in 1 .. Len(dec.query_evals) : dec.query_evals[i] = FinalConstant

\* C8 (trace opening indices follow the blowup): the indices verify_proof
\* checks for query q are q, q + D/N, q + 2D/N mod D, in this order.
C8_IndicesFollowBlowup ==
    pc \in {"verified", "done"}
        => ver.all_indices
             = TraceIndices(ver.query_indices,
                            pub.eval_dom_size \div pub.int_dom_size,
                            pub.eval_dom_size)

\* The composition polynomial at x0 for the trace length n, from the
\* opened values t = (T(x0), T(g x0), T(g^2 x0)).
CompositionAt(a, b, c, t, x0, g, n, a0, a1022) ==
    FAdd(FAdd(FMul(a, FDiv(FSub(t[1], a0), FSub(x0, 1))),
              FMul(b, FDiv(FSub(t[1], a1022), FSub(x0, FPow(g, n - 2))))),
         FMul(c, FDiv(FMul(FSub(FSub(t[3], FMul(t[2], t[2])), FMul(t[1], t[1])),
                           FMul(FMul(FSub(x0, FPow(g, n - 3)),
                                     FSub(x0, FPow(g, n - 2))),
                                FSub(x0, FPow(g, n - 1)))),
                      FSub(FPow(x0, n), 1))))

\* C9 (verifier recomputation of H): on honest openings the value
\* verify_proof computes for query q is the composition polynomial at
\* x0 = h w^q, with the public trace length N in x0^N - 1 and in the points
\* g^(N-3), g^(N-2), g^(N-1), and no denominator is zero.
C9_RecomputedH ==
    (pc \in {"verified", "done"} /\ tamper = "none" /\ ver.ret = "true")
        => \A i \in 1 .. Len(ver.query_indices) :
              LET n  == pub.int_dom_size
                  x0 == FMul(OFFSET, FPow(ver.w, ver.query_indices[i]))
                  t  == << Evaluate(trace.poly, x0),
                           Evaluate(trace.poly, FMul(ver.g, x0)),
                           Evaluate(trace.poly, FMul(FMul(ver.g, ver.g), x0)) >>
              IN  /\ FSub(x0, 1) # 0
                  /\ FSub(x0, FPow(ver.g, n - 2)) # 0
                  /\ FSub(FPow(x0, n), 1) # 0
                  /\ ver.comp_poly_query_evals[i]
                       = CompositionAt(ver.a, ver.b, ver.c, t, x0, ver.g, n,
                                       pub.fib_squared_0, pub.fib_squared_1022)
                  /\ ver.comp_poly_query_evals[i] = Evaluate(comp.poly, x0)

\* Sanity: what holds of them at the protocol's sizes.
C8_AtDefault == DefaultSizes => C8_IndicesFollowBlowup

C9_AtDefault == DefaultSizes => C9_RecomputedH

\* ---------------------------------------------- the functions on their own
\* The polynomials of degree at most MaxDegree with coefficients up to
\* MaxCoef.
Polys ==
    {c \in UNION {[1 .. n -> 0 .. MaxCoef] : n \in 0 .. MaxDegree + 1} :
        c = <<>> \/ c[Len(c)] # 0}

\* Sparse polynomials of higher degree.
HighPolys ==
    {PolyAdd(Monomial(1, d), Trim(<<c>>)) :
        d \in MaxDegree + 1 .. 2 * MaxDegree + 3, c \in 0 .. MaxCoef}

\* Field elements close to either end of the field.
NearEnds == {x \in FE : x <= MaxPoint \/ x >= FieldModulus - MaxPoint}

\* commit_and_fold on its own: a polynomial, a domain, two queries.
InitFri ==
    /\ pc = "composed"
    /\ \E f \in Polys \cup HighPolys, d \in {EVAL_DOM_SIZE \div 2, EVAL_DOM_SIZE} :
          /\ comp = [poly |-> f, query_indices |-> <<1, d - 2>>]
          /\ pub = [modulus |-> FieldModulus, int_dom_size |-> d \div BLOWUP_FACTOR,
                    eval_dom_size |-> d, num_queries |-> 2,
                    fib_squared_0 |-> 1, fib_squared_1022 |-> 1]
    /\ witness = 1
    /\ trace = None
    /\ cons = None
    /\ fri = None
    /\ ptr = NewTranscript
    /\ proof = [trace_root |-> HashData(0), trace_proofs |-> <<>>, fri_layers |-> <<>>]
    /\ tamper = "none"
    /\ vtr = NewTranscript
    /\ ver = None
    /\ dec = None

SpecFri == InitFri /\ [][CommitAndFold]_vars

\* The even and the odd part of f: f(x) = f_e(x^2) + x f_o(x^2).
EvenPart(f) == Trim([j \in 1 .. (Len(f) + 1) \div 2 |-> Coef(f, 2 * (j - 1))])

OddPart(f) == Trim([j \in 1 .. Len(f) \div 2 |-> Coef(f, 2 * (j - 1) + 1)])

\* One folding on its own: a polynomial, then a challenge and a point.
InitFold ==
    /\ pc = "fold"
    /\ comp \in {[poly |-> f] : f \in Polys}
    /\ pub = None
    /\ witness = 1
    /\ trace = None
    /\ cons = None
    /\ fri = None
    /\ ptr = NewTranscript
    /\ proof = None
    /\ tamper = "none"
    /\ vtr = NewTranscript
    /\ ver = None
    /\ dec = None

\* The prover folds the polynomial with beta; the verifier folds the two
\* values at x and -x.
FoldAt ==
    /\ pc = "fold"
    /\ \E beta \in NearEnds, x \in NearEnds \ {0} :
          LET eval     == Evaluate(comp.poly, x)
              sym_eval == Evaluate(comp.poly, FSub(0, x))
              folded   == fold_polynomial(comp.poly, beta)
          IN  fri' = [beta |-> beta, x |-> x, eval |-> eval, sym_eval |-> sym_eval,
                      folded   |-> folded,
                      prover   |-> Evaluate(folded, FMul(x, x)),
                      verifier |-> curr_layer_query_evals(x, eval, sym_eval, beta)]
    /\ pc' = "folded"
    /\ UNCHANGED <<pub, witness, trace, cons, comp, ptr, proof, tamper, vtr, ver, dec>>

SpecFold == InitFold /\ [][FoldAt]_vars

\* The denominators tried: x - r and x^k - 1.
Denominators ==
    {PolySubConst(Monomial(1, 1), r) : r \in 0 .. MaxCoef}
        \cup {PolySubConst(Monomial(1, k), 1) : k \in 1 .. MaxDegree}

\* polynomial_division on its own, on a product q * den, next to the
\* prover's own three divisions.
InitDiv ==
    \/ Init
    \/ /\ pc = "divide"
       /\ \E q \in Polys, den \in Denominators, twice \in 1 .. 2,
             h \in {OFFSET, OFFSET + 1} :
             LET num == PolyMul(q, den)
                 ds  == twice * NextPow2(Len(num))
             IN  /\ ~division_panics(den, ds, h)
                 /\ cons = [q |-> q, num |-> num, den |-> den,
                            domain_size |-> ds, offset |-> h, quotient |-> <<>>]
       /\ pub = None
       /\ witness = 1
       /\ trace = None
       /\ comp = None
       /\ fri = None
       /\ ptr = NewTranscript
       /\ proof = None
       /\ tamper = "none"
       /\ vtr = NewTranscript
       /\ ver = None
       /\ dec = None

Divide ==
    /\ pc = "divide"
    /\ cons' = [cons EXCEPT !.quotient =
                   polynomial_division(cons.num, cons.den, cons.domain_size, cons.offset)]
    /\ pc' = "divided"
    /\ UNCHANGED <<pub, witness, trace, comp, fri, ptr, proof, tamper, vtr, ver, dec>>

NextDiv ==
    \/ GenerateProof
    \/ Divide

SpecDiv == InitDiv /\ [][NextDiv]_vars

\* The least k with 2^k >= m.
CeilLog2(m) == CHOOSE k \in 0 .. 31 : Pow2(k) >= m /\ (k = 0 \/ Pow2(k - 1) < m)

\* C6 (layer count): for a polynomial of degree d commit_and_fold folds
\* L = bit_length(d) = ceil(log2(d + 1)) times and returns L + 1 layers, the
\* k-th committed over D / 2^k points at offset h^(2^k), the last one the
\* commitment of a constant.
C6_LayerCount ==
    pc = "proved" =>
        LET d == Degree(comp.poly)
            l == Len(fri.steps) - 1
            last == fri.steps[l + 1]
        IN  /\ l = BitLength(d)
            /\ l = CeilLog2(d + 1)
            /\ Len(proof.fri_layers) = l + 1
            /\ Cardinality({k \in 1 .. Len(ptr.log) : ptr.log[k].what = "beta"}) = l
            /\ \A k \in 0 .. l :
                  /\ fri.steps[k + 1].domain_size = pub.eval_dom_size \div Pow2(k)
                  /\ fri.steps[k + 1].offset = FPow(OFFSET, Pow2(k))
                  /\ Len(fri.steps[k + 1].eval) = pub.eval_dom_size \div Pow2(k)
                  /\ proof.fri_layers[k + 1].root = MerkleRoot(fri.steps[k + 1].eval)
                  /\ Len(proof.fri_layers[k + 1].validation_data)
                       = Len(comp.query_indices)
            /\ Len(last.polynomial) <= 1
            /\ Degree(last.polynomial) = 0
            /\ \A i \in 1 .. Len(last.eval) : last.eval[i] = Coef(last.polynomial, 0)

C6_Witness ==
    /\ pc = "proved"
    /\ Degree(comp.poly) = MaxDegree + 1
    /\ Len(proof.fri_layers) = BitLength(MaxDegree + 1) + 1
    /\ Len(fri.steps[2].polynomial) > 1

\* C7 (fold consistency): for a polynomial f, a challenge beta and a
\* non-zero point x, the value the verifier folds from f(x) and f(-x),
\* ((f(x) + f(-x)) + beta (f(x) - f(-x)) / x) / 2, is fold_polynomial(f, beta)
\* at x^2, and fold_polynomial(f, beta) is f_e + beta f_o.
C7_FoldConsistency ==
    pc = "folded" =>
        /\ fri.verifier = fri.prover
        /\ fri.verifier
             = FDiv(FAdd(FAdd(fri.eval, fri.sym_eval),
                         FDiv(FMul(fri.beta, FSub(fri.eval, fri.sym_eval)), fri.x)),
                    2)
        /\ fri.folded
             = PolyAdd(EvenPart(comp.poly), PolyScalarMul(fri.beta, OddPart(comp.poly)))
        /\ fri.eval
             = FAdd(Evaluate(EvenPart(comp.poly), FMul(fri.x, fri.x)),
                    FMul(fri.x, Evaluate(OddPart(comp.poly), FMul(fri.x, fri.x))))
        /\ Degree(fri.folded) <= Degree(comp.poly) \div 2

C7_Witness ==
    /\ pc = "folded"
    /\ Degree(comp.poly) = MaxDegree
    /\ fri.beta > 1
    /\ fri.x > 1
    /\ fri.eval # fri.sym_eval
    /\ Degree(fri.folded) = MaxDegree \div 2
    /\ fri.verifier = fri.prover

\* C10 (exact division): polynomial_division of a product q * den by den,
\* on a power-of-two domain larger than the degrees whose offset domain
\* holds no root of den, returns the quotient: quotient * den = q * den;
\* and the prover's three quotients satisfy p0 (x - 1) = T - a0,
\* p1 (x - g^1022) = T - a1022 and p2 (x^N - 1) = N(x).
C10_ExactDivision ==
    /\ pc = "divided" =>
          /\ PolyMul(cons.quotient, cons.den) = cons.num
          /\ cons.quotient = cons.q
    /\ (pc = "constrained" /\ cons.ok) =>
          LET n == pub.int_dom_size
              g == get_primitive_root_of_unity(Log2(n))
              x == Monomial(1, 1)
              t == trace.poly
              c == PolySub(PolySub(Scale(t, FMul(g, g)),
                                   PolyMul(Scale(t, g), Scale(t, g))),
                           PolyMul(t, t))
              numerator == PolyMul(PolyMul(PolyMul(c, PolySubConst(x, FPow(g, n - 3))),
                                           PolySubConst(x, FPow(g, n - 2))),
                                   PolySubConst(x, FPow(g, n - 1)))
          IN  /\ PolyMul(cons.initial, PolySubConst(x, 1))
                   = PolySubConst(t, pub.fib_squared_0)
              /\ PolyMul(cons.result, PolySubConst(x, FPow(g, n - 2)))
                   = PolySubConst(t, pub.fib_squared_1022)
              /\ cons.numerator = numerator
              /\ PolyMul(cons.transition, PolySubConst(Monomial(1, n), 1)) = numerator

C10_Witness ==
    /\ pc = "constrained"
    /\ cons.ok
    /\ Len(cons.initial) = pub.int_dom_size - 1
    /\ Len(cons.transition) = pub.int_dom_size + 2

C10_WitnessDivided ==
    /\ pc = "divided"
    /\ Len(cons.q) = MaxDegree + 1
    /\ Len(cons.den) = MaxDegree + 1
    /\ cons.quotient = cons.q

\* sample_queries on its own: a transcript in some state, a domain size
\* (1 and the powers of two up to the limb), a number of queries.
InitQueries ==
    /\ pc = "sample"
    /\ \E seed \in 0 .. MaxSeed, e \in 0 .. Log2(LimbBase), nq \in 0 .. MaxQueries :
          /\ ptr = [state |-> seed, log |-> <<>>]
          /\ pub = [eval_dom_size |-> Pow2(e), num_queries |-> nq]
    /\ witness = 1
    /\ trace = None
    /\ cons = None
    /\ comp = None
    /\ fri = None
    /\ proof = None
    /\ tamper = "none"
    /\ vtr = NewTranscript
    /\ ver = None
    /\ dec = None

SampleQueries ==
    /\ pc = "sample"
    /\ comp' = [query_indices |->
                   sample_queries(pub.num_queries, pub.eval_dom_size, ptr)]
    /\ ptr' = after_sample_queries(pub.num_queries, ptr)
    /\ pc' = "sampled"
    /\ UNCHANGED <<pub, witness, trace, cons, fri, proof, tamper, vtr, ver, dec>>

SpecQueries == InitQueries /\ [][SampleQueries]_vars

\* The bytes as a big-endian unsigned integer.
BigEndian(bytes) ==
    LET n == Len(bytes)
        upto[k \in 0 .. n] == IF k = 0 THEN 0 ELSE upto[k - 1] * LimbBase + bytes[k]
    IN  upto[n]

\* The squeezes a transcript logged, in order.
Squeezes(log) == SelectSeq(log, LAMBDA r : r.op = "sample")

\* C11 (index sampling): sample_queries returns num_queries indices, the
\* j-th the j-th squeeze of the transcript read as a big-endian unsigned
\* integer and reduced modulo D, each in [0, D).
C11_IndexSampling ==
    pc = "sampled" =>
        LET q == comp.query_indices
            sq == Squeezes(ptr.log)
        IN  /\ Len(q) = pub.num_queries
            /\ Len(sq) = pub.num_queries
            /\ \A j \in 1 .. Len(q) :
                  /\ q[j] = BigEndian(sq[j].val) % pub.eval_dom_size
                  /\ q[j] \in 0 .. pub.eval_dom_size - 1

C11_Witness ==
    /\ pc = "sampled"
    /\ pub.num_queries > 1
    /\ pub.eval_dom_size = EVAL_DOM_SIZE
    /\ comp.query_indices[1] # comp.query_indices[2]
    /\ comp.query_indices[2] > 0
    /\ Squeezes(ptr.log)[2].val[1] > 0
    /\ BigEndian(Squeezes(ptr.log)[2].val) > EVAL_DOM_SIZE

\* The malformed inputs of decommit_and_fold.
Malformed == {"no_layers", "short_validation", "short_evals"}

\* C12 (the verifier always answers with a boolean): decommit_and_fold
\* returns true or false on every proof, and false on a malformed one (no
\* FRI layers, a layer with fewer validation entries than queries, fewer
\* claimed evaluations than query indices); it never aborts.
C12_AlwaysBoolean ==
    pc = "done" =>
        /\ dec.ret \in {"true", "false"}
        /\ tamper \in Malformed => dec.ret = "false"

\* Each malformation on its own.
C12_NoLayersRejected ==
    (pc = "done" /\ tamper = "no_layers") => dec.ret = "false"

C12_ShortValidationRejected ==
    (pc = "done" /\ tamper = "short_validation") => dec.ret = "false"

C12_ShortEvalsRejected ==
    (pc = "done" /\ tamper = "short_evals") => dec.ret = "false"

\* The trace of the witness does not end in the claimed a[1022].
InvalidWitness ==
    FibSquared(pub.int_dom_size, pub.fib_squared_0, witness)[pub.int_dom_size - 1]
        # pub.fib_squared_1022

\* C13 (the prover refuses an invalid witness): when the trace of the
\* witness does not reach the claimed a[1022], generate_proof aborts at its
\* boundary check, with no commitment built and no proof emitted.
C13_InvalidWitnessRefused ==
    (pc # "start" /\ InvalidWitness)
        => /\ pc = "aborted"
           /\ ~trace.ok
           /\ DOMAIN trace = {"ok", "fib_squared", "poly"}
           /\ cons = None
           /\ comp = None
           /\ proof = None

C13_Witness ==
    /\ pc = "aborted"
    /\ InvalidWitness
    /\ witness > 1
    /\ DefaultSizes
    /\ Len(trace.poly) = pub.int_dom_size
    /\ proof = None

\* decommit_and_fold on the first k + 1 layers of the proof: what the
\* verifier holds once it is through layer k.
ThroughLayer(k) ==
    decommit_and_fold(SubSeq(proof.fri_layers, 1, k + 1), pub.eval_dom_size,
                      ver.query_indices, ver.queries, ver.comp_poly_query_evals,
                      ver.tr)

\* C14 (FRI index/point invariant): on an honest proof, at every layer k
\* and for every query q, with D_k = D / 2^k, idx_k = q mod D_k and
\* sym_k = (idx_k + D_k/2) mod D_k: both lie in [0, D_k); the prover opened
\* its layer-k evaluations at idx_k and sym_k; the layer-k domain point
\* h^(2^k) w_k^(idx_k) is x0 = h w^q squared k times, the point at sym_k is
\* its negation; and the verifier, where it accepts, verified the openings
\* at these indices and tracks this point.
C14_IndexPointInvariant ==
    (pc \in {"verified", "done"} /\ tamper = "none")
        => \A k \in 0 .. Len(proof.fri_layers) - 1 :
              \A i \in 1 .. Len(ver.query_indices) :
                 LET dk    == pub.eval_dom_size \div Pow2(k)
                     idx   == ver.query_indices[i] % dk
                     sym   == (idx + dk \div 2) % dk
                     step  == fri.steps[k + 1]
                     layer == proof.fri_layers[k + 1]
                     vd    == layer.validation_data[i]
                     wk    == get_primitive_root_of_unity(Log2(dk))
                     x0    == FMul(OFFSET, FPow(ver.w, ver.query_indices[i]))
                     point == FMul(FPow(OFFSET, Pow2(k)), FPow(wk, idx))
                 IN  /\ dk >= 2
                     /\ idx \in 0 .. dk - 1
                     /\ sym \in 0 .. dk - 1
                     /\ sym # idx
                     /\ comp.query_indices = ver.query_indices
                     /\ step.domain_size = dk
                     /\ ver.queries[i] = x0
                     /\ point = FPow(x0, Pow2(k))
                     /\ point = FMul(step.offset, FPow(wk, idx))
                     /\ FMul(step.offset, FPow(wk, sym)) = FSub(0, point)
                     /\ vd.proof = get_proof_by_pos(step.eval, idx)
                     /\ vd.sym_proof = get_proof_by_pos(step.eval, sym)
                     /\ step.eval[idx + 1] = Evaluate(step.polynomial, point)
                     /\ vd.sym_eval = step.eval[sym + 1]
                     /\ vd.sym_eval = Evaluate(step.polynomial, FSub(0, point))
                     /\ (pc = "done" /\ dec.ret = "true") =>
                           /\ ProofVerify(vd.proof, layer.root, idx, step.eval[idx + 1])
                           /\ ProofVerify(vd.sym_proof, layer.root, sym, vd.sym_eval)
                           /\ ThroughLayer(k).ret = "true"
                           /\ ThroughLayer(k).domain_size = dk
                           /\ ThroughLayer(k).queries[i] = point
                           /\ ThroughLayer(k).query_evals[i] = step.eval[idx + 1]

C14_Witness ==
    /\ pc = "done"
    /\ tamper = "none"
    /\ dec.ret = "true"
    /\ pub.num_queries > 1
    /\ Len(proof.fri_layers) > 3
    /\ \E i \in 1 .. Len(ver.query_indices) :
          /\ ver.query_indices[i] >= pub.eval_dom_size \div 2
          /\ ver.query_indices[i] % (pub.eval_dom_size \div 4)
               # ver.query_indices[i] % (pub.eval_dom_size \div 2)
    /\ dec.queries = ThroughLayer(Len(proof.fri_layers) - 1).queries

\* C15 (inclusion proofs, one per index): verify_inclusion_proofs returns
\* true only if the commitment stores one inclusion proof for every index
\* passed in and the i-th stored proof verifies against the root at the
\* i-th index with its stored value; fewer proofs than indices, none
\* included, are not accepted.
C15_OneProofPerIndex ==
    (pc \in {"verified", "done"} /\ ver.opened)
        => /\ Len(proof.trace_proofs) = Len(ver.all_indices)
           /\ \A k \in 1 .. Len(ver.all_indices) :
                 ProofVerify(proof.trace_proofs[k].proof, proof.trace_root,
                             ver.all_indices[k], proof.trace_proofs[k].eval)

\* The case of no stored proof at all.
C15_NoneNotAccepted ==
    (pc \in {"verified", "done"} /\ Len(ver.all_indices) > 0
        /\ Len(proof.trace_proofs) = 0) => ~ver.opened

\* What does hold: the proofs checked are the first ones, pairwise.
C15_ZippedPairsVerify ==
    (pc \in {"verified", "done"} /\ ver.opened)
        => \A k \in 1 .. MinOf(Len(ver.all_indices), Len(proof.trace_proofs)) :
              ProofVerify(proof.trace_proofs[k].proof, proof.trace_root,
                          ver.all_indices[k], proof.trace_proofs[k].eval)

====
